---- MODULE Spec2Model ----
(***************************************************************************)
(* Order tracking backend (Shopify integration).                           *)
(*                                                                         *)
(* Two deployments of the same adapter are modelled:                       *)
(*   variant "A"  src/unnamed/part_000                                     *)
(*                status driven by the fulfillment_stage metafield,        *)
(*                payment slip stored as a file reference;                 *)
(*   variant "B"  src/order-tracking-backend.js                            *)
(*                status driven by fulfillment status and tags,            *)
(*                payment slip stored inline as JSON.                      *)
(*                                                                         *)
(* JavaScript strings that the code takes apart (tag lists, order numbers, *)
(* metafield values) are sequences of chunks; a chunk is a run of          *)
(* characters that contains none of the separators the code looks for.     *)
(* null, undefined and the empty string are the empty sequence, so that    *)
(* JavaScript truthiness of such a value is "is not the empty sequence".   *)
(* Enumerated platform fields (fulfillment_status, financial_status) are   *)
(* TLA+ strings, with "null" for a null field.                             *)
(***************************************************************************)
EXTENDS Integers, Sequences, FiniteSets, TLC

VARIABLES
    variant,     \* which of the two source files is deployed
    now,         \* the clock, in ms (new Date())
    orders,      \* the platform's orders, in the order a query returns them
    metafields,  \* the platform's metafields, a metafield's id is its index
    reqs,        \* per slot: the request being handled and its position
    started,     \* number of requests received so far
    orders0,     \* history: the platform's orders as they were at start
    lastSlip,    \* history: per order, the last payment_slip value the platform stored
    fn           \* pure-function harness: the last application and its result

vars == <<variant, now, orders, metafields, reqs, started, orders0, lastSlip, fn>>

----------------------------------------------------------------------------
(* String primitives, as String.prototype / Array.prototype compute them.  *)

\* JavaScript truthiness of a string-or-null value
truthy(v) == v # <<>>

RECURSIVE indexOfFrom(_, _, _)
\* first index >= i at which pat occurs in s, 0 when there is none
indexOfFrom(s, pat, i) ==
    IF i + Len(pat) - 1 > Len(s) THEN 0
    ELSE IF SubSeq(s, i, i + Len(pat) - 1) = pat THEN i
    ELSE indexOfFrom(s, pat, i + 1)

indexOf(s, pat) == indexOfFrom(s, pat, 1)

\* String.prototype.replace with a string pattern: the FIRST occurrence only
replace(s, pat, rep) ==
    LET i == indexOf(s, pat)
    IN  IF i = 0 THEN s
        ELSE SubSeq(s, 1, i - 1) \o rep \o SubSeq(s, i + Len(pat), Len(s))

RECURSIVE split(_, _)
\* String.prototype.split with a non-empty separator
split(s, sep) ==
    LET i == indexOf(s, sep)
    IN  IF i = 0 THEN <<s>>
        ELSE <<SubSeq(s, 1, i - 1)>> \o split(SubSeq(s, i + Len(sep), Len(s)), sep)

RECURSIVE join(_, _)
\* Array.prototype.join
join(parts, sep) ==
    IF Len(parts) = 0 THEN <<>>
    ELSE IF Len(parts) = 1 THEN parts[1]
    ELSE parts[1] \o sep \o join(Tail(parts), sep)

\* Array.prototype.includes
includes(arr, x) == \E i \in 1..Len(arr) : arr[i] = x

UpperCase == <<"A", "B", "C", "D", "E", "F", "G", "H", "I", "J", "K", "L", "M",
               "N", "O", "P", "Q", "R", "S", "T", "U", "V", "W", "X", "Y", "Z">>
LowerCase == <<"a", "b", "c", "d", "e", "f", "g", "h", "i", "j", "k", "l", "m",
               "n", "o", "p", "q", "r", "s", "t", "u", "v", "w", "x", "y", "z">>

lowerChar(c) ==
    IF \E i \in 1..Len(UpperCase) : UpperCase[i] = c
    THEN LowerCase[CHOOSE i \in 1..Len(UpperCase) : UpperCase[i] = c]
    ELSE c

\* String.prototype.toLowerCase, character by character
toLowerCase(s) == [i \in 1..Len(s) |-> lowerChar(s[i])]

CommaSpace == <<",", " ">>
PaymentConfirmedTag == <<"payment-confirmed">>
StageProcessing == <<"p", "r", "o", "c", "e", "s", "s", "i", "n", "g">>
StageShipped == <<"s", "h", "i", "p", "p", "e", "d">>
StageDelivered == <<"d", "e", "l", "i", "v", "e", "r", "e", "d">>

----------------------------------------------------------------------------
(* Helper functions of the adapter.                                        *)

\* order.tags ? order.tags.split(', ') : []
tagsOf(order) == IF truthy(order.tags) THEN split(order.tags, CommaSpace) ELSE <<>>

\* faulty variant: the stage compared without .toLowerCase()
mapOrderStatusA_caseSensitive(order, fulfillmentStageMetafield) ==
    IF truthy(order.cancelled_at) THEN "cancelled"
    ELSE LET hasStage == /\ fulfillmentStageMetafield # <<>>
                         /\ truthy(fulfillmentStageMetafield[1].value)
             stage == IF hasStage THEN fulfillmentStageMetafield[1].value ELSE <<>>
         IN  IF hasStage /\ stage = StageProcessing THEN "processing"
             ELSE IF hasStage /\ stage = StageShipped THEN "shipped"
             ELSE IF hasStage /\ stage = StageDelivered THEN "delivered"
             ELSE IF order.financial_status = "paid" THEN "confirmed"
             ELSE "pending_payment"

\* variant A: mapOrderStatus(order, fulfillmentStageMetafield)
mapOrderStatusA(order, fulfillmentStageMetafield) ==
    IF truthy(order.cancelled_at) THEN "cancelled"
    ELSE LET hasStage == /\ fulfillmentStageMetafield # <<>>
                         /\ truthy(fulfillmentStageMetafield[1].value)
             stage == IF hasStage
                      THEN toLowerCase(fulfillmentStageMetafield[1].value)
                      ELSE <<>>
         IN  IF hasStage /\ stage = StageProcessing THEN "processing"
             ELSE IF hasStage /\ stage = StageShipped THEN "shipped"
             ELSE IF hasStage /\ stage = StageDelivered THEN "delivered"
             ELSE IF order.financial_status = "paid" THEN "confirmed"
             ELSE IF order.financial_status \in {"pending", "authorized", "partially_paid"}
                  THEN "pending_payment"
             ELSE "pending_payment"

\* faulty variant: the fulfillment checks moved ahead of the cancellation check
mapOrderStatusB_fulfillmentFirst(order) ==
    IF order.fulfillment_status = "fulfilled" THEN "delivered"
    ELSE IF order.fulfillment_status \in {"partial", "shipped"} THEN "shipped"
    ELSE IF truthy(order.cancelled_at) THEN "cancelled"
    ELSE IF includes(tagsOf(order), PaymentConfirmedTag) THEN "processing"
    ELSE IF order.financial_status = "paid" THEN "confirmed"
    ELSE "pending_payment"

\* faulty variant: the paid check moved ahead of the tag check
mapOrderStatusB_paidFirst(order) ==
    IF truthy(order.cancelled_at) THEN "cancelled"
    ELSE IF order.fulfillment_status = "fulfilled" THEN "delivered"
    ELSE IF order.fulfillment_status \in {"partial", "shipped"} THEN "shipped"
    ELSE IF order.financial_status = "paid" THEN "confirmed"
    ELSE IF includes(tagsOf(order), PaymentConfirmedTag) THEN "processing"
    ELSE "pending_payment"

\* faulty variant: the default branch returns the financial status itself
mapOrderStatusB_passThrough(order) ==
    IF truthy(order.cancelled_at) THEN "cancelled"
    ELSE IF order.fulfillment_status = "fulfilled" THEN "delivered"
    ELSE IF order.fulfillment_status \in {"partial", "shipped"} THEN "shipped"
    ELSE IF includes(tagsOf(order), PaymentConfirmedTag) THEN "processing"
    ELSE IF order.financial_status = "paid" THEN "confirmed"
    ELSE IF order.financial_status \in {"pending", "authorized"} THEN "pending_payment"
    ELSE order.financial_status

\* variant B: mapOrderStatus(order)
mapOrderStatusB(order) ==
    IF truthy(order.cancelled_at) THEN "cancelled"
    ELSE IF order.fulfillment_status = "fulfilled" THEN "delivered"
    ELSE IF order.fulfillment_status \in {"partial", "shipped"} THEN "shipped"
    ELSE IF includes(tagsOf(order), PaymentConfirmedTag) THEN "processing"
    ELSE IF order.financial_status = "paid" THEN "confirmed"
    ELSE IF order.financial_status \in {"pending", "authorized"} THEN "pending_payment"
    ELSE "pending_payment"

MsPerDay == 1000 * 60 * 60 * 24
CancelWindowDays == 3

\* faulty variant: the 'shipped' alternative of the fulfillment check dropped
canCancelOrder_noShipped(order, t) ==
    IF truthy(order.cancelled_at) THEN FALSE
    ELSE IF order.fulfillment_status = "fulfilled" THEN FALSE
    ELSE (t - order.created_at) <= CancelWindowDays * MsPerDay

\* faulty variant: daysDiff < 3 instead of daysDiff <= 3
canCancelOrder_strict(order, t) ==
    IF truthy(order.cancelled_at) THEN FALSE
    ELSE IF order.fulfillment_status \in {"fulfilled", "shipped"} THEN FALSE
    ELSE (t - order.created_at) < CancelWindowDays * MsPerDay

\* faulty variant: the cancellation timestamp is not tested
canCancelOrder_ignoreCancelled(order, t) ==
    IF order.fulfillment_status \in {"fulfilled", "shipped"} THEN FALSE
    ELSE (t - order.created_at) <= CancelWindowDays * MsPerDay

\* canCancelOrder(order), with new Date() passed as t.  daysDiff is the real
\* quotient (t - created_at) / MsPerDay; daysDiff <= 3 is compared here without
\* the division (MsPerDay > 0; a double tells 3 from 3 + 1/MsPerDay).
canCancelOrder(order, t) ==
    IF truthy(order.cancelled_at) THEN FALSE
    ELSE IF order.fulfillment_status \in {"fulfilled", "shipped"} THEN FALSE
    ELSE (t - order.created_at) <= CancelWindowDays * MsPerDay

\* const cleanOrderNumber = orderNumber.replace('#', '')
cleanOrderNumber(orderNumber) == replace(orderNumber, <<"#">>, <<>>)

\* `orders.json?name=${cleanOrderNumber}&status=any`
ordersEndpoint(orderNumber) ==
    <<"orders.json?name=">> \o cleanOrderNumber(orderNumber) \o <<"&status=any">>

----------------------------------------------------------------------------
(* Configuration and upload filter.                                        *)

\* CONFIG.allowedFileTypes
allowedFileTypes(v) ==
    IF v = "A"
    THEN {"image/jpeg", "image/png", "image/jpg", "image/webp", "image/heic", "image/heif"}
    ELSE {"image/jpeg", "image/png", "image/jpg", "application/pdf"}

\* CONFIG.maxFileSize
maxFileSize(v) == IF v = "A" THEN 10 * 1024 * 1024 ELSE 5 * 1024 * 1024

\* multer fileFilter: cb(null, true) or cb(new Error(...))
fileFilter(v, file) == file.mimetype \in allowedFileTypes(v)

\* The fixed, localized messages of the route handlers
MsgNotFound == "order not found"
MsgFetchError == "error fetching order"
MsgNoFile == "no file uploaded"
MsgUploadError == "error uploading file"
MsgUploadOk == "payment slip uploaded"
MsgConfirmError == "error confirming payment"
MsgConfirmOk == "payment confirmed"
MsgCannotCancel == "cannot cancel after 3 days"
MsgCancelError == "error cancelling order"
MsgCancelOk == "order cancelled"
\* the message of the Error the upload filter passes to cb
MsgBadType == "unsupported file type"

\* res.status(s).json({success, error | message})
jsonResponse(status, success, text) ==
    [status |-> status, kind |-> "json", success |-> success, text |-> text,
     file |-> <<>>, order |-> <<>>]

\* the catch block of each route handler
catchResponse(op) ==
    jsonResponse(500, FALSE,
        CASE op = "lookup" -> MsgFetchError
          [] op = "upload" -> MsgUploadError
          [] op = "confirm" -> MsgConfirmError
          [] OTHER -> MsgCancelError)

notFoundResponse == jsonResponse(404, FALSE, MsgNotFound)

----------------------------------------------------------------------------
(* The platform request client.                                            *)

\* What the platform (or the network) answers to one call
RawResponses ==
    { [net |-> TRUE,  status |-> 0,   json |-> FALSE],
      [net |-> FALSE, status |-> 200, json |-> TRUE],
      [net |-> FALSE, status |-> 200, json |-> FALSE],
      [net |-> FALSE, status |-> 500, json |-> TRUE] }

\* makeShopifyRequest / makeShopifyGraphQLRequest: how the promise settles
makeShopifyRequest(raw) ==
    IF raw.net THEN "TransportError"
    ELSE IF ~raw.json THEN "DecodeError"
    ELSE IF raw.status >= 200 /\ raw.status < 300 THEN "resolve"
    ELSE "UpstreamError"

\* the platform carries out a call it answers with a 2xx status
applied(raw) == ~raw.net /\ raw.status >= 200 /\ raw.status < 300

----------------------------------------------------------------------------
(* The platform, as the adapter's calls see it.  It keeps metafields unique *)
(* per (owner, namespace, key): a create for a pair that exists stores the  *)
(* value in the existing entry.                                             *)

\* GET orders.json?name=<n>&status=any: the orders whose name is #<n>
platformOrders(endpoint) ==
    LET name == SubSeq(endpoint, 2, Len(endpoint) - 1)
    IN  SelectSeq(orders, LAMBDA o : o.name = <<"#">> \o name)

\* GET orders/{id}/metafields.json
platformMetafields(orderId) == SelectSeq(metafields, LAMBDA m : m.owner = orderId)

\* PUT orders/{id}/metafields/{mfId}.json
platformUpdateMetafield(mfs, mfId, value) == [mfs EXCEPT ![mfId].value = value]

\* faulty variant: a second create for the same pair adds a second entry
platformCreateMetafield_append(mfs, orderId, value) ==
    Append(mfs, [id |-> Len(mfs) + 1, owner |-> orderId, namespace |-> "custom",
                 key |-> "payment_slip", value |-> value])

\* POST orders/{id}/metafields.json
platformCreateMetafield(mfs, orderId, value) ==
    IF \E i \in 1..Len(mfs) : /\ mfs[i].owner = orderId
                              /\ mfs[i].namespace = "custom"
                              /\ mfs[i].key = "payment_slip"
    THEN [i \in 1..Len(mfs) |->
             IF mfs[i].owner = orderId /\ mfs[i].namespace = "custom"
                                       /\ mfs[i].key = "payment_slip"
             THEN [mfs[i] EXCEPT !.value = value] ELSE mfs[i]]
    ELSE Append(mfs, [id |-> Len(mfs) + 1, owner |-> orderId, namespace |-> "custom",
                      key |-> "payment_slip", value |-> value])

\* PUT orders/{id}.json {order: {id, tags}}
platformUpdateTags(os, orderId, tags) ==
    [i \in 1..Len(os) |-> IF os[i].id = orderId THEN [os[i] EXCEPT !.tags = tags] ELSE os[i]]

\* new Date().toISOString()
toISOString(t) == <<ToString(t)>>

\* POST orders/{id}/cancel.json: the platform stamps the cancellation
platformCancel(os, orderId, t) ==
    [i \in 1..Len(os) |->
        IF os[i].id = orderId /\ os[i].cancelled_at = <<>>
        THEN [os[i] EXCEPT !.cancelled_at = toISOString(t)] ELSE os[i]]

----------------------------------------------------------------------------
(* Payment slip values.                                                    *)

Base64Alphabet ==
    <<"A", "B", "C", "D", "E", "F", "G", "H", "I", "J", "K", "L", "M", "N", "O", "P",
      "Q", "R", "S", "T", "U", "V", "W", "X", "Y", "Z", "a", "b", "c", "d", "e", "f",
      "g", "h", "i", "j", "k", "l", "m", "n", "o", "p", "q", "r", "s", "t", "u", "v",
      "w", "x", "y", "z", "0", "1", "2", "3", "4", "5", "6", "7", "8", "9", "+", "/">>

RECURSIVE toBase64(_)
\* Buffer.prototype.toString('base64')
toBase64(buf) ==
    IF Len(buf) = 0 THEN <<>>
    ELSE LET b1 == buf[1]
             b2 == IF Len(buf) >= 2 THEN buf[2] ELSE 0
             b3 == IF Len(buf) >= 3 THEN buf[3] ELSE 0
             n == b1 * 65536 + b2 * 256 + b3
             c1 == Base64Alphabet[(n \div 262144) + 1]
             c2 == Base64Alphabet[((n \div 4096) % 64) + 1]
             c3 == IF Len(buf) >= 2 THEN Base64Alphabet[((n \div 64) % 64) + 1] ELSE "="
             c4 == IF Len(buf) >= 3 THEN Base64Alphabet[(n % 64) + 1] ELSE "="
         IN  <<c1, c2, c3, c4>> \o
             (IF Len(buf) > 3 THEN toBase64(SubSeq(buf, 4, Len(buf))) ELSE <<>>)

\* variant B: const fileData = {filename, mimetype, size, uploadedAt, data}
fileDataOf(file, t) ==
    [filename |-> file.originalname, mimetype |-> file.mimetype, size |-> file.size,
     uploadedAt |-> toISOString(t), data |-> toBase64(file.buffer)]

\* JSON.stringify(fileData)
jsonStringify(fileData) ==
    <<"{filename:", fileData.filename, ",mimetype:", fileData.mimetype,
      ",size:", ToString(fileData.size), ",uploadedAt:">> \o fileData.uploadedAt
      \o <<",data:">> \o fileData.data \o <<"}">>

\* whether JSON.parse(value) returns (it throws a SyntaxError otherwise)
jsonParses(value) ==
    Len(value) >= 2 /\ value[1] = "{filename:" /\ value[Len(value)] = "}"

\* variant A: uploadedFile.id, the id the platform gives the file it created
fileIdOf(seq) == <<"gid://shopify/MediaImage/", ToString(seq)>>

\* Array.prototype.find over the indices that satisfy the test: the first
\* matching element as <<element>>, or the empty sequence (undefined)
firstMatch(arr, matching) ==
    IF matching = {} THEN <<>>
    ELSE <<arr[CHOOSE i \in matching : \A j \in matching : i <= j]>>

\* faulty variant: the namespace test dropped
findMetafield_keyOnly(mfs, key) ==
    firstMatch(mfs, {i \in 1..Len(mfs) : mfs[i].key = key})

\* find(mf => mf.namespace === 'custom' && mf.key === <key>)
findMetafield(mfs, key) ==
    firstMatch(mfs, {i \in 1..Len(mfs) : mfs[i].namespace = "custom" /\ mfs[i].key = key})

----------------------------------------------------------------------------
(* Requests.                                                               *)

Slots == {"r1", "r2"}
SeqSlots == {"r1"}
MaxRequests == 3

Ops == {"lookup", "upload", "confirm", "cancel"}
OrderNumbers == {<<"#", "1006">>, <<"1006">>, <<"9999">>}

\* req.file as multer leaves it (buffer abbreviated to the file's first bytes)
PdfFile == [originalname |-> "slip.pdf", mimetype |-> "application/pdf",
            size |-> 4, buffer |-> <<37, 80, 68, 70>>]
BigFile == [originalname |-> "photo.jpg", mimetype |-> "image/jpeg",
            size |-> 6 * 1024 * 1024, buffer |-> <<255, 216, 255>>]
TxtFile == [originalname |-> "notes.txt", mimetype |-> "text/plain",
            size |-> 2, buffer |-> <<104, 105>>]
Files == {PdfFile, BigFile, TxtFile}

IdleReq ==
    [op |-> "none", pc |-> "idle", seq |-> 0, orderNumber |-> <<>>, file |-> <<>>,
     queried |-> FALSE, matched |-> <<>>, order |-> <<>>, checkedAt |-> 0,
     fileData |-> <<>>, slip |-> <<>>, existing |-> <<>>, wrote |-> FALSE,
     tags |-> <<>>, calls |-> <<>>, failed |-> FALSE, resp |-> <<>>]

\* res.status(..).json(..) / res.json(..): the request is answered
respond(q, response) == [q EXCEPT !.pc = "done", !.resp = <<response>>]

issue(q, call) == [q EXCEPT !.calls = Append(@, call)]

\* faulty variant: a call that fails is issued a second time
rejected_retryOnce(q) ==
    IF q.failed THEN respond(q, catchResponse(q.op)) ELSE [q EXCEPT !.failed = TRUE]

\* an awaited call rejects: control leaves the try block for the handler's
\* catch, which answers 500 with the operation's message
rejected(q) == respond([q EXCEPT !.failed = TRUE], catchResponse(q.op))

\* Errors raised by the upload middleware
BadTypeError == [message |-> MsgBadType,
                 stack |-> "Error: unsupported file type at fileFilter"]
TooLargeError == [message |-> "File too large",
                  stack |-> "MulterError: File too large at abortWithCode"]

\* No error-handling middleware is registered: an error passed to next() is
\* answered by the framework's final handler, by NODE_ENV
finalHandler(err, env) ==
    [status |-> 500, kind |-> "html", success |-> FALSE,
     text |-> IF env = "production" THEN "Internal Server Error" ELSE err.stack,
     file |-> <<>>, order |-> <<>>]

\* faulty variant: only !ordersResponse.orders is tested, the length test dropped
noOrders_missingOnly(found) == FALSE

\* if (!ordersResponse.orders || ordersResponse.orders.length === 0)
noOrders(found) == Len(found) = 0

\* const order = ordersResponse.orders[0]
firstOrder(found) == found[1]

\* faulty variant: the tag pushed without the includes test
confirmTags_alwaysPush(order) ==
    join(Append(tagsOf(order), PaymentConfirmedTag), CommaSpace)

\* confirm-payment: the tag list written back
confirmTags(order) ==
    LET tags == tagsOf(order)
    IN  join(IF includes(tags, PaymentConfirmedTag) THEN tags
             ELSE Append(tags, PaymentConfirmedTag), CommaSpace)

\* faulty variant: the gate tests the age alone
cancelRefused_ageOnly(order, t) == (t - order.created_at) > CancelWindowDays * MsPerDay

\* the gate of the cancel handler: if (!canCancelOrder(order)) return 400
cancelRefused(order, t) == ~canCancelOrder(order, t)

\* What each handler does between the order query and its next await
afterOrder(v, q, t) ==
    LET order == q.order[1]
    IN  CASE q.op = "lookup" -> [q EXCEPT !.pc = "meta"]
          [] q.op = "upload" ->
                IF v = "A" THEN [q EXCEPT !.pc = "stage"]
                ELSE [q EXCEPT !.pc = "meta",
                               !.fileData = <<fileDataOf(q.file[1], t)>>,
                               !.slip = jsonStringify(fileDataOf(q.file[1], t))]
          [] q.op = "confirm" -> [q EXCEPT !.pc = "write", !.tags = confirmTags(order)]
          [] OTHER ->
                IF cancelRefused(order, t)
                THEN respond([q EXCEPT !.checkedAt = t],
                             jsonResponse(400, FALSE, MsgCannotCancel))
                ELSE [q EXCEPT !.pc = "cancel", !.checkedAt = t]

\* The Derived Order View of the lookup handler
orderView(v, order, slipMf, stageMf, t) ==
    [id |-> order.id, number |-> order.name, createdAt |-> order.created_at,
     status |-> IF v = "A" THEN mapOrderStatusA(order, stageMf) ELSE mapOrderStatusB(order),
     financialStatus |-> order.financial_status,
     fulfillmentStatus |-> order.fulfillment_status,
     cancelled |-> order.cancelled_at # <<>>,
     cancelledAt |-> order.cancelled_at,
     paymentSlip |-> IF slipMf = <<>> THEN <<>> ELSE <<slipMf[1].value>>,
     canCancel |-> canCancelOrder(order, t)]

\* The success response of the upload handler; it reads fileData.uploadedAt,
\* and fileData is declared in variant B only (ReferenceError in variant A)
uploadResponse(q) ==
    IF q.fileData = <<>> THEN catchResponse("upload")
    ELSE [jsonResponse(200, TRUE, MsgUploadOk) EXCEPT
             !.file = <<[name |-> q.file[1].originalname, size |-> q.file[1].size,
                         uploadedAt |-> q.fileData[1].uploadedAt]>>]

----------------------------------------------------------------------------
(* Initial platform states.                                                *)

BaseOrder ==
    [id |-> 1, name |-> <<"#", "1006">>, created_at |-> 0, cancelled_at |-> <<>>,
     fulfillment_status |-> "null", financial_status |-> "pending", tags |-> <<>>]

OldSlip == <<"gid://shopify/MediaImage/", "0">>

Scenarios ==
    { [orders |-> <<BaseOrder>>, metafields |-> <<>>],
      [orders |-> <<[BaseOrder EXCEPT !.tags = <<"vip", ",", " ", "payment-confirmed">>]>>,
       metafields |-> <<[id |-> 1, owner |-> 1, namespace |-> "other",
                         key |-> "payment_slip", value |-> <<"x">>],
                        [id |-> 2, owner |-> 1, namespace |-> "custom",
                         key |-> "payment_slip", value |-> OldSlip]>>],
      [orders |-> <<[BaseOrder EXCEPT !.cancelled_at = <<"2024-01-02T00:00:00Z">>]>>,
       metafields |-> <<>>],
      [orders |-> <<[BaseOrder EXCEPT !.fulfillment_status = "fulfilled",
                                      !.financial_status = "paid"]>>,
       metafields |-> <<[id |-> 1, owner |-> 1, namespace |-> "custom",
                         key |-> "fulfillment_stage",
                         value |-> <<"S", "h", "i", "p", "p", "e", "d">>]>>],
      [orders |-> <<[BaseOrder EXCEPT !.tags = <<"vip">>],
                    [BaseOrder EXCEPT !.id = 2, !.financial_status = "paid",
                                      !.cancelled_at = <<"2024-01-02T00:00:00Z">>]>>,
       metafields |-> <<>>] }

\* the instants the clock takes; every order was created at instant 0
ClockValues == {CancelWindowDays * MsPerDay, CancelWindowDays * MsPerDay + 1, 10 * MsPerDay}

NoFn == [name |-> "none"]

Init ==
    /\ variant \in {"A", "B"}
    /\ now = CancelWindowDays * MsPerDay
    /\ \E sc \in Scenarios :
          /\ orders = sc.orders
          /\ metafields = sc.metafields
          /\ orders0 = sc.orders
          /\ lastSlip = [i \in 1..Len(sc.orders) |-> <<>>]
    /\ reqs = [r \in Slots |-> IdleReq]
    /\ started = 0
    /\ fn = NoFn

----------------------------------------------------------------------------
(* The route handlers, one action per await.                               *)

\* A request arrives
Receive(r) ==
    /\ reqs[r].pc \in {"idle", "done"}
    /\ started < MaxRequests
    /\ \E op \in Ops, num \in OrderNumbers, f \in {<<>>} \cup {<<x>> : x \in Files} :
          /\ op # "upload" => f = <<>>
          /\ reqs' = [reqs EXCEPT ![r] =
                 [IdleReq EXCEPT !.op = op, !.seq = started + 1, !.orderNumber = num,
                                 !.file = f,
                                 !.pc = IF op = "upload" THEN "multer" ELSE "query"]]
    /\ started' = started + 1
    /\ UNCHANGED <<variant, now, orders, metafields, orders0, lastSlip, fn>>

\* upload.single('paymentSlip'), then the handler's if (!req.file)
uploadSingle(r) ==
    /\ reqs[r].pc = "multer"
    /\ LET q == reqs[r]
       IN  \E env \in {"production", "development"} :
              reqs' = [reqs EXCEPT ![r] =
                  IF q.file = <<>> THEN respond(q, jsonResponse(400, FALSE, MsgNoFile))
                  ELSE IF ~fileFilter(variant, q.file[1])
                       THEN respond(q, finalHandler(BadTypeError, env))
                  ELSE IF q.file[1].size > maxFileSize(variant)
                       THEN respond(q, finalHandler(TooLargeError, env))
                  ELSE [q EXCEPT !.pc = "query"]]
    /\ UNCHANGED <<variant, now, orders, metafields, started, orders0, lastSlip, fn>>

\* await makeShopifyRequest(`orders.json?name=...&status=any`), in all four handlers
QueryOrder(r) ==
    /\ reqs[r].pc = "query"
    /\ \E raw \in RawResponses :
          LET q == issue(reqs[r], "GET orders")
              found == platformOrders(ordersEndpoint(q.orderNumber))
              ids == [i \in 1..Len(found) |-> found[i].id]
              seen == [q EXCEPT !.queried = TRUE, !.matched = ids]
          IN  reqs' = [reqs EXCEPT ![r] =
                  IF makeShopifyRequest(raw) # "resolve" THEN rejected(q)
                  ELSE IF noOrders(found) THEN respond(seen, notFoundResponse)
                  ELSE IF Len(found) = 0 THEN respond(seen, catchResponse(q.op))
                  ELSE afterOrder(variant, [seen EXCEPT !.order = <<firstOrder(found)>>], now)]
    /\ UNCHANGED <<variant, now, orders, metafields, started, orders0, lastSlip, fn>>

\* lookup: await makeShopifyRequest(`orders/${order.id}/metafields.json`), then the view
LookupMetafields(r) ==
    /\ reqs[r].pc = "meta" /\ reqs[r].op = "lookup"
    /\ \E raw \in RawResponses :
          LET q == issue(reqs[r], "GET metafields")
              order == q.order[1]
              mfs == platformMetafields(order.id)
              slipMf == findMetafield(mfs, "payment_slip")
              stageMf == findMetafield(mfs, "fulfillment_stage")
          IN  reqs' = [reqs EXCEPT ![r] =
                  IF makeShopifyRequest(raw) # "resolve" THEN rejected(q)
                  ELSE IF variant = "B" /\ slipMf # <<>> /\ ~jsonParses(slipMf[1].value)
                       THEN respond(q, catchResponse(q.op))
                  ELSE respond(q, [jsonResponse(200, TRUE, "order") EXCEPT
                           !.order = <<orderView(variant, order, slipMf, stageMf, now)>>])]
    /\ UNCHANGED <<variant, now, orders, metafields, started, orders0, lastSlip, fn>>

\* variant A, step 1: stagedUploadsCreate
UploadStage(r) ==
    /\ reqs[r].pc = "stage"
    /\ \E raw \in RawResponses, userErrors \in BOOLEAN :
          LET q == issue(reqs[r], "GQL stagedUploadsCreate")
          IN  reqs' = [reqs EXCEPT ![r] =
                  IF makeShopifyRequest(raw) # "resolve" THEN rejected(q)
                  ELSE IF userErrors THEN respond(q, catchResponse(q.op))
                  ELSE [q EXCEPT !.pc = "transfer"]]
    /\ UNCHANGED <<variant, now, orders, metafields, started, orders0, lastSlip, fn>>

\* variant A, step 2: the multipart POST to the staged target (status decides)
UploadTransfer(r) ==
    /\ reqs[r].pc = "transfer"
    /\ \E raw \in RawResponses :
          LET q == issue(reqs[r], "POST staged target")
          IN  reqs' = [reqs EXCEPT ![r] =
                  IF ~applied(raw) THEN rejected(q)
                  ELSE [q EXCEPT !.pc = "fileCreate"]]
    /\ UNCHANGED <<variant, now, orders, metafields, started, orders0, lastSlip, fn>>

\* variant A, step 3: fileCreate
UploadFileCreate(r) ==
    /\ reqs[r].pc = "fileCreate"
    /\ \E raw \in RawResponses, userErrors \in BOOLEAN :
          LET q == issue(reqs[r], "GQL fileCreate")
          IN  reqs' = [reqs EXCEPT ![r] =
                  IF makeShopifyRequest(raw) # "resolve" THEN rejected(q)
                  ELSE IF userErrors THEN respond(q, catchResponse(q.op))
                  ELSE [q EXCEPT !.pc = "meta", !.slip = fileIdOf(q.seq)]]
    /\ UNCHANGED <<variant, now, orders, metafields, started, orders0, lastSlip, fn>>

\* upload: check if metafield exists
UploadMetafields(r) ==
    /\ reqs[r].pc = "meta" /\ reqs[r].op = "upload"
    /\ \E raw \in RawResponses :
          LET q == issue(reqs[r], "GET metafields")
              mfs == platformMetafields(q.order[1].id)
          IN  reqs' = [reqs EXCEPT ![r] =
                  IF makeShopifyRequest(raw) # "resolve" THEN rejected(q)
                  ELSE [q EXCEPT !.pc = "write",
                                 !.existing = findMetafield(mfs, "payment_slip")]]
    /\ UNCHANGED <<variant, now, orders, metafields, started, orders0, lastSlip, fn>>

\* upload: update the existing metafield or create a new one, then answer
UploadWrite(r) ==
    /\ reqs[r].pc = "write" /\ reqs[r].op = "upload"
    /\ \E raw \in RawResponses :
          LET q0 == reqs[r]
              orderId == q0.order[1].id
              q == issue(q0, IF q0.existing # <<>> THEN "PUT metafield" ELSE "POST metafield")
          IN  /\ metafields' =
                    IF ~applied(raw) THEN metafields
                    ELSE IF q0.existing # <<>>
                         THEN platformUpdateMetafield(metafields, q0.existing[1].id, q0.slip)
                         ELSE platformCreateMetafield(metafields, orderId, q0.slip)
              /\ lastSlip' = IF applied(raw) THEN [lastSlip EXCEPT ![orderId] = <<q0.slip>>]
                             ELSE lastSlip
              /\ reqs' = [reqs EXCEPT ![r] =
                    IF makeShopifyRequest(raw) # "resolve" THEN rejected(q)
                    ELSE respond([q EXCEPT !.wrote = TRUE], uploadResponse(q))]
    /\ UNCHANGED <<variant, now, orders, started, orders0, fn>>

\* confirm-payment: write the tag list back
ConfirmWrite(r) ==
    /\ reqs[r].pc = "write" /\ reqs[r].op = "confirm"
    /\ \E raw \in RawResponses :
          LET q == issue(reqs[r], "PUT order")
          IN  /\ orders' = IF applied(raw)
                           THEN platformUpdateTags(orders, q.order[1].id, q.tags)
                           ELSE orders
              /\ reqs' = [reqs EXCEPT ![r] =
                    IF makeShopifyRequest(raw) # "resolve" THEN rejected(q)
                    ELSE respond(q, jsonResponse(200, TRUE, MsgConfirmOk))]
    /\ UNCHANGED <<variant, now, metafields, started, orders0, lastSlip, fn>>

\* cancel: the platform's cancel operation
CancelWrite(r) ==
    /\ reqs[r].pc = "cancel"
    /\ \E raw \in RawResponses :
          LET q == issue(reqs[r], "POST cancel")
          IN  /\ orders' = IF applied(raw) THEN platformCancel(orders, q.order[1].id, now)
                           ELSE orders
              /\ reqs' = [reqs EXCEPT ![r] =
                    IF makeShopifyRequest(raw) # "resolve" THEN rejected(q)
                    ELSE respond(q, jsonResponse(200, TRUE, MsgCancelOk))]
    /\ UNCHANGED <<variant, now, metafields, started, orders0, lastSlip, fn>>

\* Time passes
Tick ==
    /\ \E t \in ClockValues : t > now /\ now' = t
    /\ UNCHANGED <<variant, orders, metafields, reqs, started, orders0, lastSlip, fn>>

Handler(r) ==
    \/ Receive(r)
    \/ uploadSingle(r)
    \/ QueryOrder(r)
    \/ LookupMetafields(r)
    \/ UploadStage(r)
    \/ UploadTransfer(r)
    \/ UploadFileCreate(r)
    \/ UploadMetafields(r)
    \/ UploadWrite(r)
    \/ ConfirmWrite(r)
    \/ CancelWrite(r)

\* Requests handled one after another
Next == (\E r \in SeqSlots : Handler(r)) \/ Tick

Spec == Init /\ [][Next]_vars

\* Requests handled concurrently, their awaits interleaved
NextConc == (\E r \in Slots : Handler(r)) \/ Tick

SpecConc == Init /\ [][NextConc]_vars

\* Uploads for one order handled concurrently: every await of one request may
\* be followed by any await of the other
MaxUploads == 2

PngFile == [originalname |-> "slip.png", mimetype |-> "image/png",
            size |-> 3, buffer |-> <<137, 80, 78>>]
RaceFiles == {PdfFile, BigFile, PngFile}

ReceiveUpload(r) ==
    /\ reqs[r].pc \in {"idle", "done"}
    /\ started < MaxUploads
    /\ \E f \in RaceFiles :
          reqs' = [reqs EXCEPT ![r] =
              [IdleReq EXCEPT !.op = "upload", !.seq = started + 1,
                              !.orderNumber = <<"1006">>, !.file = <<f>>,
                              !.pc = "multer"]]
    /\ started' = started + 1
    /\ UNCHANGED <<variant, now, orders, metafields, orders0, lastSlip, fn>>

UploadHandler(r) ==
    \/ ReceiveUpload(r)
    \/ uploadSingle(r)
    \/ QueryOrder(r)
    \/ UploadStage(r)
    \/ UploadTransfer(r)
    \/ UploadFileCreate(r)
    \/ UploadMetafields(r)
    \/ UploadWrite(r)

NextRace == (\E r \in Slots : UploadHandler(r)) \/ Tick

SpecRace == Init /\ [][NextRace]_vars

----------------------------------------------------------------------------
(* The helper functions applied to inputs drawn from bounded sets.         *)

FnTags ==
    { <<>>, <<"vip">>, <<"payment-confirmed">>,
      <<"vip", ",", " ", "payment-confirmed">>,
      <<"payment-confirmed", ",", " ", "vip">>,
      <<"not-", "payment-confirmed">> }

FnOrders ==
    [id : {1}, name : {<<"#", "1006">>}, created_at : {0, MsPerDay},
     cancelled_at : {<<>>, <<"2024-01-02T00:00:00Z">>},
     fulfillment_status : {"null", "partial", "fulfilled", "shipped", "restocked"},
     financial_status : {"paid", "pending", "authorized", "partially_paid",
                         "refunded", "voided", "undefined"},
     tags : FnTags]

\* the fulfillment_stage metafield handed to mapOrderStatus: undefined or an entry
FnStages ==
    {<<>>} \cup
    { <<[namespace |-> "custom", key |-> "fulfillment_stage", value |-> v]>> :
        v \in { <<>>, StageProcessing, <<"S", "h", "i", "p", "p", "e", "d">>,
                <<"D", "E", "L", "I", "V", "E", "R", "E", "D">>,
                <<"p", "a", "c", "k", "e", "d">> } }

FnTimes ==
    { MsPerDay, CancelWindowDays * MsPerDay - 1, CancelWindowDays * MsPerDay,
      CancelWindowDays * MsPerDay + 1, (CancelWindowDays + 1) * MsPerDay,
      (CancelWindowDays + 1) * MsPerDay + 1, 10 * MsPerDay }

FnOrderNumbers ==
    { <<>>, <<"1006">>, <<"#", "1006">>, <<"#", "#", "1006">>, <<"10", "#", "06">>,
      <<"1006", "#">>, <<"#", "10", "#", "06">>, <<"#">>, <<"#", "#">> }

InitFn ==
    /\ variant = "B"
    /\ now = CancelWindowDays * MsPerDay
    /\ orders = <<BaseOrder>>
    /\ metafields = <<>>
    /\ orders0 = <<BaseOrder>>
    /\ lastSlip = <<<<>>>>
    /\ reqs = [r \in Slots |-> IdleReq]
    /\ started = 0
    /\ fn = NoFn

FnMapOrderStatus ==
    /\ fn = NoFn
    /\ \E o \in FnOrders, mf \in FnStages :
          fn' = [name |-> "mapOrderStatus", order |-> o, stage |-> mf,
                 statusA |-> mapOrderStatusA(o, mf), statusB |-> mapOrderStatusB(o)]
    /\ UNCHANGED <<variant, now, orders, metafields, reqs, started, orders0, lastSlip>>

FnCanCancelOrder ==
    /\ fn = NoFn
    /\ \E o \in FnOrders, t \in FnTimes :
          fn' = [name |-> "canCancelOrder", order |-> o, now |-> t,
                 result |-> canCancelOrder(o, t)]
    /\ UNCHANGED <<variant, now, orders, metafields, reqs, started, orders0, lastSlip>>

FnCleanOrderNumber ==
    /\ fn = NoFn
    /\ \E s \in FnOrderNumbers :
          fn' = [name |-> "cleanOrderNumber", orderNumber |-> s,
                 clean |-> cleanOrderNumber(s),
                 cleanTwice |-> cleanOrderNumber(cleanOrderNumber(s)),
                 endpoint |-> ordersEndpoint(s),
                 endpointHash |-> ordersEndpoint(<<"#">> \o s)]
    /\ UNCHANGED <<variant, now, orders, metafields, reqs, started, orders0, lastSlip>>

\* completed responses by status and body, and the network error
FnRawResponses ==
    { [net |-> TRUE, status |-> 0, json |-> FALSE] } \cup
    [net : {FALSE}, status : {199, 200, 204, 299, 300, 404, 500, 502}, json : BOOLEAN]

FnMakeShopifyRequest ==
    /\ fn = NoFn
    /\ \E raw \in FnRawResponses :
          fn' = [name |-> "makeShopifyRequest", raw |-> raw,
                 outcome |-> makeShopifyRequest(raw)]
    /\ UNCHANGED <<variant, now, orders, metafields, reqs, started, orders0, lastSlip>>

NextFn == FnMapOrderStatus \/ FnCanCancelOrder \/ FnCleanOrderNumber \/ FnMakeShopifyRequest

SpecFn == InitFn /\ [][NextFn]_vars

----------------------------------------------------------------------------
(* Properties.                                                             *)

Last(seq) == seq[Len(seq)]
Count(seq, x) == Cardinality({i \in 1..Len(seq) : seq[i] = x})

\* C1: an order with a non-null cancellation timestamp derives 'cancelled' in
\* both variants, whatever the stage metafield, fulfillment status, financial
\* status and tags are.
C1_CancelledWins ==
    (fn.name = "mapOrderStatus" /\ fn.order.cancelled_at # <<>>)
        => (fn.statusA = "cancelled" /\ fn.statusB = "cancelled")

C1_Witness ==
    /\ fn.name = "mapOrderStatus"
    /\ fn.order.cancelled_at # <<>>
    /\ fn.order.fulfillment_status = "fulfilled"
    /\ fn.order.financial_status = "paid"
    /\ fn.order.tags = <<"vip", ",", " ", "payment-confirmed">>
    /\ fn.stage # <<>>
    /\ fn.stage[1].value = <<"D", "E", "L", "I", "V", "E", "R", "E", "D">>
    /\ fn.statusA = "cancelled"
    /\ fn.statusB = "cancelled"

\* C2: the cancel handler refuses (400, the fixed 'cannot cancel' message) and
\* issues no upstream cancel call whenever the order it looked up is cancelled,
\* fulfilled or shipped, or older than 3 days at the time of the check.
C2_CancelGated ==
    \A r \in Slots :
        LET q == reqs[r]
        IN  (q.op = "cancel" /\ q.order # <<>>) =>
               LET o == q.order[1]
                   notCancellable ==
                       \/ o.cancelled_at # <<>>
                       \/ o.fulfillment_status \in {"fulfilled", "shipped"}
                       \/ q.checkedAt - o.created_at > 259200000
               IN  /\ notCancellable =>
                        /\ q.resp = <<jsonResponse(400, FALSE, MsgCannotCancel)>>
                        /\ ~includes(q.calls, "POST cancel")
                   /\ ~notCancellable => q.pc = "cancel" \/ includes(q.calls, "POST cancel")

C2_Witness ==
    \E r \in Slots :
        /\ reqs[r].op = "cancel"
        /\ reqs[r].order # <<>>
        /\ reqs[r].order[1].cancelled_at = <<>>
        /\ reqs[r].order[1].fulfillment_status = "null"
        /\ reqs[r].checkedAt - reqs[r].order[1].created_at = 864000000
        /\ reqs[r].resp = <<jsonResponse(400, FALSE, MsgCannotCancel)>>
        /\ reqs[r].calls = <<"GET orders">>

\* C3: canCancel is false for fulfillment status 'fulfilled' or 'shipped', at
\* every age of the order.
C3_FulfilledNeverCancellable ==
    (fn.name = "canCancelOrder" /\ fn.order.fulfillment_status \in {"fulfilled", "shipped"})
        => fn.result = FALSE

C3_Witness ==
    /\ fn.name = "canCancelOrder"
    /\ fn.order.fulfillment_status = "shipped"
    /\ fn.order.cancelled_at = <<>>
    /\ fn.now - fn.order.created_at < 259200000
    /\ fn.result = FALSE

\* C4: for an order that is neither cancelled nor fulfilled/shipped, canCancel
\* is true iff now - createdAt <= 259,200,000 ms (3 days, inclusive).
C4_ThreeDayWindow ==
    (/\ fn.name = "canCancelOrder"
     /\ fn.order.cancelled_at = <<>>
     /\ fn.order.fulfillment_status \notin {"fulfilled", "shipped"})
        => (fn.result <=> (fn.now - fn.order.created_at <= 259200000))

C4_Witness ==
    /\ fn.name = "canCancelOrder"
    /\ fn.order.cancelled_at = <<>>
    /\ fn.order.fulfillment_status = "null"
    /\ fn.now - fn.order.created_at = 259200000
    /\ fn.result = TRUE

\* C5: payment confirmation is idempotent on the tag list: the platform's tag
\* list is the original one, or the original one with 'payment-confirmed'
\* appended when it was absent; after a successful confirmation the tag occurs
\* exactly once; confirming an already-confirmed order writes back its tags
\* unchanged.
C5_ConfirmIdempotent ==
    /\ \A i \in 1..Len(orders) :
          LET before == tagsOf(orders0[i])
              after == tagsOf(orders[i])
          IN  \/ after = before
              \/ after = Append(before, PaymentConfirmedTag)
                 /\ ~includes(before, PaymentConfirmedTag)
    /\ \A r \in Slots :
          LET q == reqs[r]
          IN  /\ (q.op = "confirm" /\ q.resp = <<jsonResponse(200, TRUE, MsgConfirmOk)>>)
                    => Count(tagsOf(orders[q.order[1].id]), PaymentConfirmedTag) = 1
              /\ (/\ q.op = "confirm"
                  /\ q.order # <<>>
                  /\ includes(tagsOf(q.order[1]), PaymentConfirmedTag))
                    => q.tags = q.order[1].tags

\* a second confirmation, of an order the first one has tagged
C5_Witness ==
    \E r \in Slots :
        /\ reqs[r].op = "confirm"
        /\ reqs[r].resp = <<jsonResponse(200, TRUE, MsgConfirmOk)>>
        /\ includes(tagsOf(reqs[r].order[1]), PaymentConfirmedTag)
        /\ ~includes(tagsOf(orders0[reqs[r].order[1].id]), PaymentConfirmedTag)
        /\ orders[reqs[r].order[1].id].tags = <<"vip", ",", " ", "payment-confirmed">>

\* C6: order-number cleaning is idempotent for every string, and '#N' and 'N'
\* give the same upstream order query.
C6_CleanIdempotent ==
    fn.name = "cleanOrderNumber" =>
        /\ fn.cleanTwice = fn.clean
        /\ ~includes(fn.orderNumber, "#") => fn.endpointHash = fn.endpoint

\* C7: when the order query returns no order the handler answers 404 with the
\* fixed message and issues no further upstream call; when it returns several,
\* the first one is used.
C7_NotFoundStops ==
    \A r \in Slots :
        LET q == reqs[r]
        IN  q.queried =>
              /\ Len(q.matched) = 0 =>
                    /\ q.resp = <<jsonResponse(404, FALSE, MsgNotFound)>>
                    /\ q.calls = <<"GET orders">>
              /\ Len(q.matched) > 0 =>
                    /\ q.order # <<>>
                    /\ q.order[1].id = q.matched[1]

C7_Witness ==
    \E r \in Slots :
        /\ reqs[r].op = "upload"
        /\ reqs[r].queried
        /\ reqs[r].matched = <<>>
        /\ reqs[r].resp = <<jsonResponse(404, FALSE, MsgNotFound)>>
        /\ reqs[r].calls = <<"GET orders">>

FixedMessages ==
    {MsgNotFound, MsgFetchError, MsgNoFile, MsgUploadError, MsgConfirmError,
     MsgCannotCancel, MsgCancelError, MsgBadType}

\* C8: every failure of a request is answered by the route handler with one of
\* the fixed localized messages, never with an internal error message or a
\* stack trace.
C8_FailuresAnsweredWithFixedMessage ==
    \A r \in Slots :
        (reqs[r].resp # <<>> /\ ~reqs[r].resp[1].success) =>
            /\ reqs[r].resp[1].kind = "json"
            /\ reqs[r].resp[1].text \in FixedMessages

\* C9: in both variants an upload whose metadata write has succeeded is
\* answered with success:true, the success message and the file echo.
C9_UploadSuccessAnswered ==
    \A r \in Slots :
        (reqs[r].op = "upload" /\ reqs[r].wrote) =>
            /\ reqs[r].resp[1].status = 200
            /\ reqs[r].resp[1].success
            /\ reqs[r].resp[1].text = MsgUploadOk
            /\ reqs[r].resp[1].file # <<>>

\* the (custom, payment_slip) entries the platform holds for an order
SlipEntries(mfs, orderId) ==
    {i \in 1..Len(mfs) : /\ mfs[i].owner = orderId
                         /\ mfs[i].namespace = "custom"
                         /\ mfs[i].key = "payment_slip"}

C10_OneEntryLatestValue ==
    \A i \in 1..Len(orders) :
        /\ Cardinality(SlipEntries(metafields, i)) <= 1
        /\ lastSlip[i] # <<>> =>
              \E k \in SlipEntries(metafields, i) : metafields[k].value = lastSlip[i][1]

C10_WriteStep ==
    \A r \in Slots :
        (reqs[r].op = "upload" /\ reqs[r].pc = "write" /\ reqs'[r].pc = "done") =>
            LET entries == SlipEntries(metafields, reqs[r].order[1].id)
            IN  IF entries = {}
                THEN Last(reqs'[r].calls) = "POST metafield"
                ELSE /\ Last(reqs'[r].calls) = "PUT metafield"
                     /\ reqs[r].existing # <<>>
                     /\ reqs[r].existing[1].id \in entries

\* C10: with uploads run one after another, the write is an update of the
\* existing (custom, payment_slip) entry when the platform holds one and a
\* create otherwise; the order never has more than one such entry, and the
\* entry holds the value of the most recent upload written.
C10_ReadBeforeWrite == []C10_OneEntryLatestValue /\ [][C10_WriteStep]_vars

\* a second upload updating the entry the first one created
C10_Witness ==
    \E r \in Slots :
        /\ reqs[r].op = "upload"
        /\ reqs[r].pc = "done"
        /\ reqs[r].wrote
        /\ Last(reqs[r].calls) = "PUT metafield"
        /\ reqs[r].existing[1].value # OldSlip
        /\ reqs[r].existing[1].value # reqs[r].slip
        /\ metafields[reqs[r].existing[1].id].value = reqs[r].slip
        /\ Cardinality(SlipEntries(metafields, reqs[r].order[1].id)) = 1

----------------------------------------------------------------------------
----------------------------------------------------------------------------
\* C12: an upstream failure is terminal and nothing is retried.  Within one
\* request no upstream call is issued twice; a request one of whose calls has
\* failed is answered, with the 500 response of its handler, and the failed
\* call is the last it issued; each step issues at most one call; the step in
\* which a call fails is the step that answers; an answered request issues no
\* further call and keeps its one response.
C12_FailedIsAnswered ==
    \A r \in Slots :
        LET q == reqs[r]
        IN  /\ \A i, j \in 1..Len(q.calls) : i # j => q.calls[i] # q.calls[j]
            /\ q.failed => /\ q.pc = "done"
                           /\ q.calls # <<>>
                           /\ q.resp = <<catchResponse(q.op)>>
            /\ Len(q.resp) = (IF q.pc = "done" THEN 1 ELSE 0)

C12_Step ==
    \A r \in Slots :
        LET q == reqs[r]
            q2 == reqs'[r]
        IN  q2.seq = q.seq =>
               /\ q2.calls = q.calls \/ \E c \in {Last(q2.calls)} : q2.calls = Append(q.calls, c)
               /\ (q2.failed /\ ~q.failed) => (Len(q2.calls) = Len(q.calls) + 1 /\ q2.pc = "done")
               /\ q.pc = "done" => q2 = q

C12_NoRetry == []C12_FailedIsAnswered /\ [][C12_Step]_vars

\* an upload whose second upstream call failed after the first succeeded
C12_Witness ==
    \E r \in Slots :
        /\ reqs[r].failed
        /\ reqs[r].op = "upload"
        /\ Len(reqs[r].calls) >= 2
        /\ reqs[r].pc = "done"
        /\ reqs[r].resp = <<jsonResponse(500, FALSE, MsgUploadError)>>

----------------------------------------------------------------------------
\* C13: an upload whose MIME type is outside the allow-list is rejected before
\* the upload handler runs: once it is answered, no upstream call was issued
\* for it and the response carries the unsupported-type message (as its
\* message, or at least within its body).
C13_BadTypeGetsMessage ==
    \A r \in Slots :
        LET q == reqs[r]
        IN  (q.op = "upload" /\ q.pc = "done" /\ q.file # <<>>
                /\ q.file[1].mimetype \notin allowedFileTypes(variant)) =>
                   /\ q.calls = <<>>
                   /\ q.resp[1].text \in {MsgBadType, BadTypeError.stack}

----------------------------------------------------------------------------
\* C14: in the variant driven by the fulfillment_stage entry, for an order
\* that is not cancelled, a stage value spelling processing, shipped or
\* delivered in any letter case gives that word in lower case as the status,
\* whatever the financial status; with the entry absent, its value empty or
\* any other string, the status is the one the financial status gives.
C14_Processing == {StageProcessing}
C14_Shipped == {StageShipped, <<"S", "h", "i", "p", "p", "e", "d">>}
C14_Delivered == {StageDelivered, <<"D", "E", "L", "I", "V", "E", "R", "E", "D">>}

C14_StageDecides ==
    (fn.name = "mapOrderStatus" /\ fn.order.cancelled_at = <<>>) =>
        LET value == IF fn.stage = <<>> THEN <<>> ELSE fn.stage[1].value
        IN  IF value \in C14_Processing THEN fn.statusA = "processing"
            ELSE IF value \in C14_Shipped THEN fn.statusA = "shipped"
            ELSE IF value \in C14_Delivered THEN fn.statusA = "delivered"
            ELSE fn.statusA = (IF fn.order.financial_status = "paid"
                               THEN "confirmed" ELSE "pending_payment")

\* an unpaid order whose stage is spelled in upper case
C14_Witness ==
    /\ fn.name = "mapOrderStatus"
    /\ fn.order.cancelled_at = <<>>
    /\ fn.order.financial_status = "pending"
    /\ fn.stage # <<>>
    /\ fn.stage[1].value = <<"D", "E", "L", "I", "V", "E", "R", "E", "D">>
    /\ fn.statusA = "delivered"

----------------------------------------------------------------------------
\* C15: in the variant driven by fulfillment status and tags, for an order
\* that is not cancelled the first matching rule decides: fulfillment status
\* fulfilled gives delivered; partial or shipped gives shipped; otherwise a
\* tag list containing payment-confirmed gives processing; each whatever the
\* financial status.
C15_Tagged ==
    { <<"payment-confirmed">>, <<"vip", ",", " ", "payment-confirmed">>,
      <<"payment-confirmed", ",", " ", "vip">> }

C15_FirstMatchWins ==
    (fn.name = "mapOrderStatus" /\ fn.order.cancelled_at = <<>>) =>
        IF fn.order.fulfillment_status = "fulfilled" THEN fn.statusB = "delivered"
        ELSE IF fn.order.fulfillment_status \in {"partial", "shipped"}
             THEN fn.statusB = "shipped"
        ELSE fn.order.tags \in C15_Tagged => fn.statusB = "processing"

\* a paid, unfulfilled order carrying the tag among others
C15_Witness ==
    /\ fn.name = "mapOrderStatus"
    /\ fn.order.cancelled_at = <<>>
    /\ fn.order.fulfillment_status = "null"
    /\ fn.order.financial_status = "paid"
    /\ fn.order.tags = <<"vip", ",", " ", "payment-confirmed">>
    /\ fn.statusB = "processing"

----------------------------------------------------------------------------
\* C16: in both variants, for an order that is not cancelled, has no
\* fulfillment status, no fulfillment_stage entry and no tags, the status is
\* confirmed exactly when the financial status is paid and pending_payment
\* for every other financial status; and the derived status of any order is
\* one of the six status words.
C16_StatusWords ==
    {"cancelled", "processing", "shipped", "delivered", "confirmed", "pending_payment"}

C16_FinancialRules ==
    fn.name = "mapOrderStatus" =>
        /\ fn.statusA \in C16_StatusWords
        /\ fn.statusB \in C16_StatusWords
        /\ (/\ fn.order.cancelled_at = <<>>
            /\ fn.order.fulfillment_status = "null"
            /\ fn.stage = <<>>
            /\ fn.order.tags = <<>>) =>
               LET expected == IF fn.order.financial_status = "paid"
                               THEN "confirmed" ELSE "pending_payment"
               IN  fn.statusA = expected /\ fn.statusB = expected

\* a refunded order with nothing else set
C16_Witness ==
    /\ fn.name = "mapOrderStatus"
    /\ fn.order.cancelled_at = <<>>
    /\ fn.order.fulfillment_status = "null"
    /\ fn.stage = <<>>
    /\ fn.order.tags = <<>>
    /\ fn.order.financial_status = "refunded"
    /\ fn.statusA = "pending_payment"
    /\ fn.statusB = "pending_payment"

----------------------------------------------------------------------------
\* C17: the request client classifies a completed response by its status
\* first: a network error fails with the transport error; a status outside
\* 200..299 fails with the upstream error whether or not the body is valid
\* JSON; a status in 200..299 fails with the decode error when the body is
\* not valid JSON and resolves otherwise.
C17_StatusFirst ==
    fn.name = "makeShopifyRequest" =>
        fn.outcome =
            (IF fn.raw.net THEN "TransportError"
             ELSE IF fn.raw.status < 200 \/ fn.raw.status > 299 THEN "UpstreamError"
             ELSE IF ~fn.raw.json THEN "DecodeError"
             ELSE "resolve")

----------------------------------------------------------------------------
\* C18: cancellation is final as seen through the adapter.  Once the platform
\* holds a cancellation timestamp for an order it keeps it through every later
\* request; every request reads the order as the platform holds it at that
\* moment; so every later lookup that returns the order shows status
\* cancelled and canCancel false, and every later cancel request that finds
\* the order is answered 400 without a cancel call being issued.
C18_SeenCancelled ==
    \A r \in Slots :
        LET q == reqs[r]
        IN  (q.order # <<>> /\ q.order[1].cancelled_at # <<>>) =>
               /\ (q.op = "lookup" /\ q.pc = "done" /\ q.resp[1].order # <<>>) =>
                      /\ q.resp[1].order[1].status = "cancelled"
                      /\ ~q.resp[1].order[1].canCancel
               /\ q.op = "cancel" =>
                      /\ q.pc = "done"
                      /\ q.resp = <<jsonResponse(400, FALSE, MsgCannotCancel)>>
                      /\ Count(q.calls, "POST cancel") = 0

C18_Step ==
    /\ Len(orders') = Len(orders)
    /\ \A i \in 1..Len(orders) :
           orders[i].cancelled_at # <<>> => orders'[i].cancelled_at = orders[i].cancelled_at
    /\ \A r \in Slots :
           (reqs'[r].order # <<>> /\ reqs'[r].order # reqs[r].order) =>
               reqs'[r].order[1] = orders[reqs'[r].order[1].id]

C18_CancellationFinal == []C18_SeenCancelled /\ [][C18_Step]_vars

\* a lookup, after a cancel request of this run that the platform carried out,
\* shows the order cancelled
C18_Witness ==
    \E r \in Slots :
        /\ reqs[r].op = "lookup"
        /\ reqs[r].pc = "done"
        /\ reqs[r].resp[1].order # <<>>
        /\ orders0[reqs[r].order[1].id].cancelled_at = <<>>
        /\ reqs[r].order[1].cancelled_at # <<>>
        /\ reqs[r].resp[1].order[1].status = "cancelled"
        /\ ~reqs[r].resp[1].order[1].canCancel

====
